---- MODULE Spec2Model ----
(***************************************************************************)
(* Model of modules/n_proxy_m_bus.py (FACSvatar): the N-proxy-M message    *)
(* bus.  start() either proxies the two sockets or runs two coroutines on  *)
(* one asyncio event loop: pub_sub_function (receive, filter, smooth,      *)
(* publish) and set_parameters (router: receive commands, set the          *)
(* smoother's multiplier).                                                 *)
(*                                                                         *)
(* Numbers are exact rationals <<n, d>> (d > 0, lowest terms); float       *)
(* rounding is not modelled.  A Python dict whose order matters (au_r,     *)
(* pose) is a sequence of <<key, value>> pairs in insertion order; the     *)
(* top-level payload dict is a function from its keys.  An optional value  *)
(* is <<>> (absent) or <<v>>.                                              *)
(***************************************************************************)
EXTENDS Integers, Sequences, FiniteSets, TLC

VARIABLES
    pub_socket,       \* self.pub_socket is initialised (BOOLEAN)
    sub_socket,       \* self.sub_socket is initialised (BOOLEAN)
    async_func_list,  \* start() was given the two coroutine functions (BOOLEAN)
    phase,            \* position of start(): "new", "exited", "proxy", "function"
    tpc,              \* position of pub_sub_function: "idle", "new", "recv", "send", "done"
    rpc,              \* position of set_parameters: "idle", "new", "recv"
    smooth_data,      \* self.smooth_data: <<>> (attribute not assigned yet) or <<SmoothData object>>
    msg,              \* <<>> or <<m>>: the inbound message the last receive returned
    pending,          \* the outbound message pub_sub_function is about to send (<<>> or <<m>>)
    out,              \* outbound messages sent since the last inbound receive
    calls,            \* smoother calls made for the last inbound message
    cmd,              \* <<>> or <<c>>: the command the router's last receive returned
    rerr,             \* the router's last iteration raised
    nrecv,            \* number of inbound messages received
    nsent             \* number of outbound messages sent

vars == <<pub_socket, sub_socket, async_func_list, phase, tpc, rpc, smooth_data,
          msg, pending, out, calls, cmd, rerr, nrecv, nsent>>

\* ---------------------------------------------------------------- bounds
MaxMsgs == 2

\* ------------------------------------------------------------- rationals
RECURSIVE GCD(_, _)
GCD(a, b) == IF b = 0 THEN a ELSE GCD(b, a % b)

Abs(n) == IF n < 0 THEN -n ELSE n

Rat(n, d) == LET g == GCD(Abs(n), d) IN <<n \div g, d \div g>>

RMul(a, b) == Rat(a[1] * b[1], a[2] * b[2])
RAdd(a, b) == Rat(a[1] * b[2] + b[1] * a[2], a[2] * b[2])
RDiv(a, b) == Rat(a[1] * b[2], a[2] * b[1])
RLess(a, b) == a[1] * b[2] < b[1] * a[2]

\* ------------------------------------------------- optional values, dicts
None == <<>>
Some(v) == <<v>>

EmptyDict == [k \in {} |-> <<>>]
Field(k, opt) == IF opt = None THEN EmptyDict ELSE (k :> opt[1])

\* keys of an ordered mapping, and lookup
Keys(d) == {d[i][1] : i \in 1..Len(d)}
Get(d, k) == LET i == CHOOSE j \in 1..Len(d) : d[j][1] = k IN d[i][2]

\* str ordering on the keys that occur (TLC has no order on strings)
KeyRank(k) == CASE k = "AU01" -> 1 [] k = "AU02" -> 2 [] k = "x" -> 3 [] OTHER -> 4

RECURSIVE Insert(_, _)
Insert(s, p) ==
    IF s = <<>> THEN <<p>>
    ELSE IF KeyRank(p[1]) < KeyRank(Head(s)[1]) THEN <<p>> \o s
    ELSE <<Head(s)>> \o Insert(Tail(s), p)

RECURSIVE SortedItems(_)
SortedItems(d) ==
    IF d = <<>> THEN <<>> ELSE Insert(SortedItems(SubSeq(d, 1, Len(d) - 1)), d[Len(d)])

StartsWith(s, prefix) ==
    Len(s) >= Len(prefix) /\ SubSeq(s, 1, Len(prefix)) = prefix

\* ------------------------------------------------------------ SmoothData
\* SmoothData(): no history for any stream yet, multiplier the identity
\* (a one-element vector broadcasts over every sample).
NewSmoothData == [multiplier |-> << <<1, 1>> >>, dataframe_list |-> << <<>>, <<>> >>]

\* multiplier * values, element-wise in the mapping's order; a one-element
\* multiplier broadcasts.
CanScale(multiplier, data) == Len(multiplier) = 1 \/ Len(multiplier) = Len(data)

Scaled(multiplier, data) ==
    [i \in 1..Len(data) |->
        <<data[i][1],
          RMul(data[i][2], IF Len(multiplier) = 1 THEN multiplier[1] ELSE multiplier[i])>>]

\* push the newest sample, keep the window_size most recent
Pushed(history, sample, window_size) ==
    LET h == Append(history, sample)
    IN IF Len(h) > window_size THEN SubSeq(h, Len(h) - window_size + 1, Len(h)) ELSE h

RECURSIVE RPow(_, _)
RPow(r, n) == IF n = 0 THEN <<1, 1>> ELSE RMul(r, RPow(r, n - 1))

\* weight of the sample `back` steps before the newest: decays
\* geometrically, by the factor (1 - steep) per step
Weight(steep, back) == RPow(Rat(steep[2] - steep[1], steep[2]), back)

RECURSIVE WeightedSum(_, _, _, _)
\* sum over samples history[1..n] that hold key k of weight * value (val = TRUE)
\* or of weight alone (val = FALSE)
WeightedSum(history, n, k, q) ==
    IF n = 0 THEN <<0, 1>>
    ELSE LET rest == WeightedSum(history, n - 1, k, q)
             w == Weight(q.steep, Len(history) - n)
         IN IF k \in Keys(history[n])
            THEN RAdd(rest, IF q.val THEN RMul(w, Get(history[n], k)) ELSE w)
            ELSE rest

Average(history, k, steep) ==
    RDiv(WeightedSum(history, Len(history), k, [steep |-> steep, val |-> TRUE]),
         WeightedSum(history, Len(history), k, [steep |-> steep, val |-> FALSE]))

\* SmoothData.trailing_moving_average(data, queue_no, window_size, steep)
\* on the object sd: [raised, result, self]
trailing_moving_average(sd, data, queue_no, window_size, steep) ==
    IF ~CanScale(sd.multiplier, data)
    THEN [raised |-> TRUE, result |-> <<>>, self |-> sd]
    ELSE LET h == Pushed(sd.dataframe_list[queue_no + 1],
                         Scaled(sd.multiplier, data), window_size)
         IN [raised |-> FALSE,
             result |-> [i \in 1..Len(data) |-> <<data[i][1], Average(h, data[i][1], steep)>>],
             self |-> [sd EXCEPT !.dataframe_list[queue_no + 1] = h]]

\* ---------------------------------------------------- bytes and messages
\* A payload part on the wire: valid JSON text of an object (ws: written
\* with other spacing than json.dumps uses), text that is not JSON, or b''.
JsonBytes(ws, val) == [kind |-> "json", ws |-> ws, val |-> val]
BadBytes == [kind |-> "bad", ws |-> FALSE, val |-> EmptyDict]
EmptyBytes == [kind |-> "empty", ws |-> FALSE, val |-> EmptyDict]

json_loads_ok(b) == b.kind = "json"
json_loads(b) == b.val
json_dumps(obj) == JsonBytes(FALSE, obj)

Confidences == {None, Some(<<7, 10>>), Some(<<4, 5>>)}
AuDicts == {None,
            Some(<< <<"AU01", <<2, 1>> >> >>),
            Some(<< <<"AU02", <<1, 1>> >>, <<"AU01", <<2, 1>> >> >>)}
PoseDicts == {None, Some(<< <<"x", <<1, 1>> >> >>)}

PayloadOf(c, a, p) ==
    Field("confidence", c) @@ Field("au_r", a) @@ Field("pose", p) @@ ("timestamp" :> <<5, 1>>)

\* a payload with every key, as json.dumps writes it and with other spacing
FullPayload(c) ==
    PayloadOf(c, Some(<< <<"AU02", <<1, 1>> >>, <<"AU01", <<2, 1>> >> >>),
              Some(<< <<"x", <<1, 1>> >> >>))

\* every choice of au_r and pose without a confidence, every confidence
\* with both
Payloads ==
    {PayloadOf(None, a, p) : a \in AuDicts, p \in PoseDicts}
    \cup {FullPayload(c) : c \in Confidences}

DataBytes ==
    {BadBytes, EmptyBytes, JsonBytes(TRUE, FullPayload(None))}
    \cup {JsonBytes(FALSE, d) : d \in Payloads}

LastBytes ==
    {BadBytes, EmptyBytes, JsonBytes(FALSE, FullPayload(Some(<<7, 10>>))),
     JsonBytes(TRUE, FullPayload(None))}

Topics == {"openface", "facsvatar_dnn"}

\* a second publisher that is not the DNN, with samples of its own
OtherTopic == "openface_b"
OtherBytes ==
    {JsonBytes(FALSE, PayloadOf(None, Some(<< <<"AU01", <<4, 1>> >> >>), None))}

\* what the DNN publishes
DnnTopic == "facsvatar_dnn"
DnnBytes ==
    {BadBytes, JsonBytes(TRUE, FullPayload(None))}
    \cup {JsonBytes(FALSE, FullPayload(c)) : c \in {None, Some(<<7, 10>>)}}

\* inbound messages: 1 to 4 parts; frame "" ends a stream
Messages ==
    {<<t>> : t \in Topics}
    \cup {<<t, f>> : t \in Topics, f \in {"", "1"}}
    \cup {<<t, "", b>> : t \in Topics, b \in LastBytes}
    \cup {<<t, "1", b>> : t \in Topics \ {DnnTopic}, b \in DataBytes}
    \cup {<<DnnTopic, "1", b>> : b \in DnnBytes}
    \cup {<<t, "", EmptyBytes, "data2">> : t \in Topics}
    \cup {<<t, "1", JsonBytes(FALSE, FullPayload(c)), "data2">> :
            t \in Topics, c \in {None, Some(<<4, 5>>)}}
    \cup {<<OtherTopic, "1", b>> : b \in OtherBytes}

\* commands to the router
Multipliers == {<< <<3, 2>> >>, << <<2, 1>>, <<1, 1>> >>}
Commands ==
    {<<"client1", "multiplier">>,
     <<"client1", "multiplier", BadBytes>>,
     <<"client1", "multiplier_au", JsonBytes(FALSE, << <<3, 2>> >>)>>,
     <<"client1", "reset", JsonBytes(FALSE, << <<3, 2>> >>)>>}
    \cup {<<"client1", "multiplier", JsonBytes(FALSE, m)>> : m \in Multipliers}

\* ------------------------------------------------------ pub_sub_function
ConfidenceThreshold == <<4, 5>>
AuWindowSize == 4
AuSteep == <<7, 20>>
PoseWindowSize == 4
PoseSteep == <<1, 5>>

\* faulty variant: the threshold itself is refused (> instead of >=)
PassesConfidence_Strict(data) ==
    "confidence" \notin DOMAIN data \/ RLess(ConfidenceThreshold, data["confidence"])

\* 'confidence' not in msg[2] or msg[2]['confidence'] >= 0.8
PassesConfidence(data) ==
    "confidence" \notin DOMAIN data \/ ~RLess(data["confidence"], ConfidenceThreshold)

\* faulty variant: the topic is compared for equality instead of by prefix
IsDnnOutput_Equal(topic) == topic = "facsvatar"

\* msg[0].decode('utf-8').startswith('facsvatar')
IsDnnOutput(topic) == StartsWith(topic, "facsvatar")

\* faulty variant: the dict is handed over in its insertion order
AuSample_Unsorted(data) == data["au_r"]

\* the sample handed to the smoother for a key of the payload
AuSample(data) == SortedItems(data["au_r"])
PoseSample(data) == data["pose"]

\* faulty variant: the smoothing step of a key uses the other stream
SmoothKey_OneStream(st, key, sample, queue_no, window_size, steep) ==
    IF st.raised \/ key \notin DOMAIN st.data THEN st
    ELSE LET r == trailing_moving_average(st.self, sample, 0, window_size, steep)
             call == [queue_no |-> 0, data |-> sample, window_size |-> window_size,
                      steep |-> steep, raised |-> r.raised, result |-> r.result]
         IN [raised |-> r.raised,
             data |-> IF r.raised THEN st.data ELSE [st.data EXCEPT ![key] = r.result],
             self |-> r.self,
             calls |-> Append(st.calls, call)]

\* one smoothing step on st = [raised, data, self, calls]: if the key is in
\* the payload, replace its value by the smoother's result
SmoothKey(st, key, sample, queue_no, window_size, steep) ==
    IF st.raised \/ key \notin DOMAIN st.data THEN st
    ELSE LET r == trailing_moving_average(st.self, sample, queue_no, window_size, steep)
             call == [queue_no |-> queue_no, data |-> sample, window_size |-> window_size,
                      steep |-> steep, raised |-> r.raised, result |-> r.result]
         IN [raised |-> r.raised,
             data |-> IF r.raised THEN st.data ELSE [st.data EXCEPT ![key] = r.result],
             self |-> r.self,
             calls |-> Append(st.calls, call)]

\* faulty variant: a history of its own for every topic but the first
Smoothed_PerTopic(topic, data, sd) ==
    LET own == IF topic = "openface" THEN sd
               ELSE [sd EXCEPT !.dataframe_list = NewSmoothData.dataframe_list]
        st0 == [raised |-> FALSE, data |-> data, self |-> own, calls |-> <<>>]
        st2 == IF IsDnnOutput(topic) THEN st0
               ELSE LET st1 == SmoothKey(st0, "au_r",
                                         IF "au_r" \in DOMAIN data THEN AuSample(data) ELSE <<>>,
                                         0, AuWindowSize, AuSteep)
                    IN SmoothKey(st1, "pose",
                                 IF "pose" \in DOMAIN data THEN PoseSample(data) ELSE <<>>,
                                 1, PoseWindowSize, PoseSteep)
    IN IF topic = "openface" THEN st2 ELSE [st2 EXCEPT !.self = sd]

\* lines 129-143: nothing for the DNN's output, else au_r against stream 0
\* and pose against stream 1
Smoothed(topic, data, sd) ==
    LET st0 == [raised |-> FALSE, data |-> data, self |-> sd, calls |-> <<>>]
    IN IF IsDnnOutput(topic) THEN st0
       ELSE LET st1 == SmoothKey(st0, "au_r",
                                 IF "au_r" \in DOMAIN data THEN AuSample(data) ELSE <<>>,
                                 0, AuWindowSize, AuSteep)
            IN SmoothKey(st1, "pose",
                         IF "pose" \in DOMAIN data THEN PoseSample(data) ELSE <<>>,
                         1, PoseWindowSize, PoseSteep)

\* faulty variant: the payload is sent as it was received
Forwarded_Raw(m, data) == <<m[1], m[2], m[3]>>

\* send_multipart([msg[0], msg[1], json.dumps(msg[2]).encode('utf-8')])
Forwarded(m, data) == <<m[1], m[2], json_dumps(data)>>

\* faulty variant: the finishing message lacks its empty data part
Finished_TwoParts(m) == <<m[1], "">>

\* send_multipart([msg[0], b'', b''])
Finished(m) == <<m[1], "", EmptyBytes>>

\* faulty variant: the end of a stream clears the histories
OnFinished_Reset(m, sd) ==
    [raised |-> FALSE, send |-> Some(Finished(m)),
     self |-> [sd EXCEPT !.dataframe_list = NewSmoothData.dataframe_list], calls |-> <<>>]

\* the else branch of `if msg[1]`: only the finishing message is sent
OnFinished(m, sd) ==
    [raised |-> FALSE, send |-> Some(Finished(m)), self |-> sd, calls |-> <<>>]

\* One pass of the body of `while True` for the received message m, the
\* smoother being sd: [raised, send, self, calls].
Iteration(m, sd) ==
    LET raise == [raised |-> TRUE, send |-> None, self |-> sd, calls |-> <<>>]
        quiet == [raised |-> FALSE, send |-> None, self |-> sd, calls |-> <<>>]
    IN IF Len(m) < 2 THEN raise                                 \* msg[1]: IndexError
       ELSE IF m[2] = "" THEN OnFinished(m, sd)
       ELSE IF Len(m) < 3 THEN raise                            \* msg[2]: IndexError
       ELSE IF ~json_loads_ok(m[3]) THEN raise                  \* JSONDecodeError
       ELSE LET data == json_loads(m[3])
            IN IF ~PassesConfidence(data) THEN quiet
               ELSE LET st == Smoothed(m[1], data, sd)
                    IN [raised |-> st.raised,
                        send |-> IF st.raised THEN None ELSE Some(Forwarded(m, st.data)),
                        self |-> st.self,
                        calls |-> st.calls]

\* -------------------------------------------------------- set_parameters
\* topic.decode('utf-8').startswith("multiplier")
IsMultiplierTopic(topic) == StartsWith(topic, "multiplier")

\* faulty variant: the new values overwrite the old vector element by element
set_multiplier_Merge(data, sdo) ==
    IF ~json_loads_ok(data) THEN [raised |-> TRUE, smooth_data |-> sdo]
    ELSE IF sdo = None THEN [raised |-> TRUE, smooth_data |-> sdo]
    ELSE LET old == sdo[1].multiplier
             new == json_loads(data)
             n == IF Len(old) > Len(new) THEN Len(old) ELSE Len(new)
         IN [raised |-> FALSE,
             smooth_data |->
                 Some([sdo[1] EXCEPT !.multiplier =
                          [i \in 1..n |-> IF i <= Len(new) THEN new[i] ELSE old[i]]])]

\* set_multiplier(data) on self.smooth_data = sdo (<<>> or <<object>>):
\* [raised, smooth_data]
set_multiplier(data, sdo) ==
    IF ~json_loads_ok(data) THEN [raised |-> TRUE, smooth_data |-> sdo]   \* JSONDecodeError
    ELSE IF sdo = None THEN [raised |-> TRUE, smooth_data |-> sdo]        \* AttributeError
    ELSE [raised |-> FALSE,
          smooth_data |-> Some([sdo[1] EXCEPT !.multiplier = json_loads(data)])]

\* faulty variant: a topic the router does not know is an error
RouterIteration_Strict(c, sdo) ==
    IF Len(c) # 3 THEN [raised |-> TRUE, smooth_data |-> sdo]
    ELSE IF IsMultiplierTopic(c[2]) THEN set_multiplier(c[3], sdo)
    ELSE [raised |-> TRUE, smooth_data |-> sdo]

\* one pass of the router's `while True` body for the received command c
RouterIteration(c, sdo) ==
    IF Len(c) # 3 THEN [raised |-> TRUE, smooth_data |-> sdo]           \* unpacking: ValueError
    ELSE IF IsMultiplierTopic(c[2]) THEN set_multiplier(c[3], sdo)
    ELSE [raised |-> FALSE, smooth_data |-> sdo]

\* --------------------------------------------------------------- actions
\* faulty variant: the event loop is left as soon as one coroutine returns
AllDone_First(t, r) == t = "done" \/ r = "done"

\* run_until_complete(asyncio.wait(...)) returns when every coroutine has
\* returned; until then the event loop runs the tasks
AllDone(t, r) == t = "done" /\ r = "done"

Init ==
    /\ pub_socket \in BOOLEAN
    /\ sub_socket \in BOOLEAN
    /\ async_func_list \in BOOLEAN
    /\ phase = "new"
    /\ tpc = "idle"
    /\ rpc = "idle"
    /\ smooth_data = None
    /\ msg = None
    /\ pending = None
    /\ out = <<>>
    /\ calls = <<>>
    /\ cmd = None
    /\ rerr = FALSE
    /\ nrecv = 0
    /\ nsent = 0

\* start(): sys.exit() when a socket is missing
StartExit ==
    /\ phase = "new"
    /\ ~pub_socket \/ ~sub_socket
    /\ phase' = "exited"
    /\ UNCHANGED <<pub_socket, sub_socket, async_func_list, tpc, rpc, smooth_data,
                   msg, pending, out, calls, cmd, rerr, nrecv, nsent>>

\* start(): function mode, both coroutines become tasks of the event loop
StartFunction ==
    /\ phase = "new"
    /\ pub_socket /\ sub_socket
    /\ async_func_list
    /\ phase' = "function"
    /\ tpc' = "new"
    /\ rpc' = "new"
    /\ UNCHANGED <<pub_socket, sub_socket, async_func_list, smooth_data,
                   msg, pending, out, calls, cmd, rerr, nrecv, nsent>>

\* faulty variant: the proxy is started without the check of the sockets
StartProxy_Unchecked ==
    /\ phase = "new"
    /\ ~async_func_list
    /\ phase' = "proxy"
    /\ UNCHANGED <<pub_socket, sub_socket, async_func_list, tpc, rpc, smooth_data,
                   msg, pending, out, calls, cmd, rerr, nrecv, nsent>>

\* start(): proxy mode
StartProxy ==
    /\ phase = "new"
    /\ pub_socket /\ sub_socket
    /\ ~async_func_list
    /\ phase' = "proxy"
    /\ UNCHANGED <<pub_socket, sub_socket, async_func_list, tpc, rpc, smooth_data,
                   msg, pending, out, calls, cmd, rerr, nrecv, nsent>>

\* zmq.proxy: a message passes through as it is
Proxy(m) ==
    /\ phase = "proxy"
    /\ nrecv < MaxMsgs
    /\ msg' = Some(m)
    /\ out' = <<m>>
    /\ nrecv' = nrecv + 1
    /\ nsent' = nsent + 1
    /\ UNCHANGED <<pub_socket, sub_socket, async_func_list, phase, tpc, rpc, smooth_data,
                   pending, calls, cmd, rerr>>

\* pub_sub_function up to its first await: a fresh SmoothData
PubSubStart ==
    /\ tpc = "new"
    /\ ~AllDone(tpc, rpc)
    /\ smooth_data' = Some(NewSmoothData)
    /\ tpc' = "recv"
    /\ UNCHANGED <<pub_socket, sub_socket, async_func_list, phase, rpc,
                   msg, pending, out, calls, cmd, rerr, nrecv, nsent>>

\* faulty variant: the send is not awaited, the next receive may overtake it
PubSubRecv_NoAwait(m) ==
    /\ tpc \in {"recv", "send"}
    /\ nrecv < MaxMsgs
    /\ ~AllDone(tpc, rpc)
    /\ LET it == Iteration(m, smooth_data[1])
       IN /\ smooth_data' = Some(it.self)
          /\ calls' = it.calls
          /\ pending' = it.send
          /\ tpc' = IF it.raised THEN "done" ELSE IF it.send = None THEN "recv" ELSE "send"
    /\ msg' = Some(m)
    /\ out' = <<>>
    /\ nrecv' = nrecv + 1
    /\ UNCHANGED <<pub_socket, sub_socket, async_func_list, phase, rpc, cmd, rerr, nsent>>

\* recv_multipart returns m; the loop body runs up to the await of the send,
\* or to the next recv when nothing is sent, or leaves the loop on an exception
PubSubRecv(m) ==
    /\ tpc = "recv"
    /\ nrecv < MaxMsgs
    /\ ~AllDone(tpc, rpc)
    /\ LET it == Iteration(m, smooth_data[1])
       IN /\ smooth_data' = Some(it.self)
          /\ calls' = it.calls
          /\ pending' = it.send
          /\ tpc' = IF it.raised THEN "done" ELSE IF it.send = None THEN "recv" ELSE "send"
    /\ msg' = Some(m)
    /\ out' = <<>>
    /\ nrecv' = nrecv + 1
    /\ UNCHANGED <<pub_socket, sub_socket, async_func_list, phase, rpc, cmd, rerr, nsent>>

\* the send completes
PubSubSend ==
    /\ tpc = "send"
    /\ ~AllDone(tpc, rpc)
    /\ out' = Append(out, pending[1])
    /\ pending' = None
    /\ nsent' = nsent + 1
    /\ tpc' = "recv"
    /\ UNCHANGED <<pub_socket, sub_socket, async_func_list, phase, rpc, smooth_data,
                   msg, calls, cmd, rerr, nrecv>>

\* set_parameters up to its first await
RouterStart ==
    /\ rpc = "new"
    /\ ~AllDone(tpc, rpc)
    /\ rpc' = "recv"
    /\ UNCHANGED <<pub_socket, sub_socket, async_func_list, phase, tpc, smooth_data,
                   msg, pending, out, calls, cmd, rerr, nrecv, nsent>>

\* faulty variant: the router answers the dealer on the outbound socket
RouterRecv_Reply(c) ==
    /\ rpc = "recv"
    /\ LET it == RouterIteration(c, smooth_data)
       IN /\ smooth_data' = it.smooth_data
          /\ rerr' = it.raised
    /\ cmd' = Some(c)
    /\ out' = Append(out, <<c[1], "", EmptyBytes>>)
    /\ nsent' = nsent + 1
    /\ UNCHANGED <<pub_socket, sub_socket, async_func_list, phase, tpc, rpc,
                   msg, pending, calls, nrecv>>

\* rout_socket.recv_multipart returns c; the body runs to the next recv
\* (set_multiplier has no await that suspends)
RouterRecv(c) ==
    /\ rpc = "recv"
    /\ ~AllDone(tpc, rpc)
    /\ LET it == RouterIteration(c, smooth_data)
       IN /\ smooth_data' = it.smooth_data
          /\ rerr' = it.raised
    /\ cmd' = Some(c)
    /\ UNCHANGED <<pub_socket, sub_socket, async_func_list, phase, tpc, rpc,
                   msg, pending, out, calls, nrecv, nsent>>

Next ==
    \/ StartExit
    \/ StartFunction
    \/ StartProxy
    \/ \E m \in Messages : Proxy(m)
    \/ PubSubStart
    \/ \E m \in Messages : PubSubRecv(m)
    \/ PubSubSend
    \/ RouterStart
    \/ \E c \in Commands : RouterRecv(c)

Spec == Init /\ [][Next]_vars

\* ------------------------------------------------------------ properties
\* the inbound message in hand (function mode), and what is or will be
\* sent for it
InHand == phase = "function" /\ msg # None
Emitted == IF pending # None THEN pending ELSE out

\* a message whose frame is set and whose payload parses
IsData(m) == Len(m) >= 3 /\ m[2] # "" /\ m[3].kind = "json"
BelowThreshold(m) ==
    "confidence" \in DOMAIN m[3].val /\ RLess(m[3].val["confidence"], <<4, 5>>)
Reserved(m) == StartsWith(m[1], "facsvatar")

\* C1: a message with an empty frame gets exactly one outbound message,
\* (topic, b'', b''), whatever its payload is; the payload is not parsed, so
\* the iteration neither raises nor calls the smoother.
C1_FinishedMessage ==
    (InHand /\ Len(msg[1]) >= 2 /\ msg[1][2] = "") =>
        /\ tpc \in {"send", "recv"}
        /\ calls = <<>>
        /\ Emitted = << <<msg[1][1], "", EmptyBytes>> >>
        /\ tpc = "recv" => out = << <<msg[1][1], "", EmptyBytes>> >>

C1_Witness ==
    /\ InHand /\ tpc = "recv"
    /\ Len(msg[1]) = 3 /\ msg[1][2] = "" /\ msg[1][3].kind = "bad"
    /\ out = << <<msg[1][1], "", EmptyBytes>> >>

\* a message the loop body cannot parse
Malformed(m) == Len(m) < 2 \/ (m[2] # "" /\ (Len(m) < 3 \/ m[3].kind # "json"))

\* C2: an error while handling one message is caught, nothing is sent for
\* that message, and the loop goes on to receive the next message.
C2_ErrorSkipsOneMessage ==
    (InHand /\ Malformed(msg[1])) => (tpc = "recv" /\ out = <<>> /\ pending = None)

\* C3: a message whose payload has confidence < 0.8 produces no outbound
\* message; without confidence, or with confidence >= 0.8, it passes the
\* filter (it is sent, or the smoother was reached).
C3_ConfidenceFilter ==
    (InHand /\ IsData(msg[1])) =>
        IF BelowThreshold(msg[1])
        THEN tpc = "recv" /\ out = <<>> /\ pending = None /\ calls = <<>>
        ELSE \/ Len(Emitted) = 1
             \/ tpc = "done" /\ calls # <<>> /\ calls[Len(calls)].raised

C3_Witness ==
    /\ InHand /\ IsData(msg[1]) /\ BelowThreshold(msg[1])
    /\ tpc = "recv" /\ out = <<>> /\ nrecv = 2 /\ nsent = 1

\* C4: a fourth part of the inbound message is part of the outbound message.
C4_ExtraPartForwarded ==
    (InHand /\ Len(msg[1]) = 4 /\ tpc = "recv" /\ out # <<>>) =>
        (Len(out[1]) = 4 /\ out[1][4] = msg[1][4])

\* C5: a message on a 'facsvatar...' topic that passes the filter is sent
\* once with the payload it came with (same keys, same values, au_r and
\* pose as received), and the smoother is not called.
C5_DnnOutputUnsmoothed ==
    (InHand /\ IsData(msg[1]) /\ ~BelowThreshold(msg[1]) /\ Reserved(msg[1])) =>
        /\ calls = <<>>
        /\ tpc \in {"send", "recv"}
        /\ Len(Emitted) = 1
        /\ Len(Emitted[1]) = 3
        /\ Emitted[1][1] = msg[1][1]
        /\ Emitted[1][2] = msg[1][2]
        /\ Emitted[1][3].kind = "json"
        /\ Emitted[1][3].val = msg[1][3].val

C5_Witness ==
    /\ InHand /\ IsData(msg[1]) /\ Reserved(msg[1])
    /\ "au_r" \in DOMAIN msg[1][3].val /\ "pose" \in DOMAIN msg[1][3].val
    /\ smooth_data[1].multiplier = << <<3, 2>> >>
    /\ tpc = "recv" /\ Len(out) = 1

\* the successful call of the smoother for a stream, among the calls made
\* for the message in hand
ResultOf(queue_no) ==
    {calls[i].result : i \in {j \in 1..Len(calls) : calls[j].queue_no = queue_no /\ ~calls[j].raised}}

\* C6: a forwarded message on another topic keeps topic, frame and the
\* payload's key set; au_r and pose hold what the smoother returned for
\* stream 0 and stream 1, every other key its inbound value.
C6_SmoothedPayload ==
    (InHand /\ IsData(msg[1]) /\ ~Reserved(msg[1]) /\ Emitted # <<>>) =>
        LET o == Emitted[1]
            d == msg[1][3].val
        IN /\ Len(o) = 3
           /\ o[1] = msg[1][1]
           /\ o[2] = msg[1][2]
           /\ o[3].kind = "json"
           /\ DOMAIN o[3].val = DOMAIN d
           /\ \A k \in DOMAIN d \ {"au_r", "pose"} : o[3].val[k] = d[k]
           /\ "au_r" \in DOMAIN d => ResultOf(0) = {o[3].val["au_r"]}
           /\ "pose" \in DOMAIN d => ResultOf(1) = {o[3].val["pose"]}
           /\ Len(calls) = Cardinality(DOMAIN d \cap {"au_r", "pose"})

C6_Witness ==
    /\ InHand /\ IsData(msg[1]) /\ ~Reserved(msg[1])
    /\ {"au_r", "pose", "confidence", "timestamp"} \subseteq DOMAIN msg[1][3].val
    /\ tpc = "recv" /\ Len(out) = 1
    /\ out[1][3].val["au_r"] # msg[1][3].val["au_r"]

\* C7: never more outbound messages than inbound messages received, at most
\* one per inbound message, and a step of the router sends nothing.
C7_AtMostOnePerInbound ==
    [][/\ nsent' + Len(pending') <= nrecv'
       /\ Len(out') + Len(pending') <= 1
       /\ (cmd' # cmd \/ rerr' # rerr \/ rpc' # rpc) => UNCHANGED <<nsent, out, pending>>]_vars

C7_Witness ==
    /\ phase = "function" /\ nrecv = 2 /\ nsent = 1 /\ cmd # None /\ tpc = "recv" /\ out = <<>>

\* a well-formed command that sets the multiplier
SetsMultiplier(c) == Len(c) = 3 /\ StartsWith(c[2], "multiplier") /\ c[3].kind = "json"

\* C8: once the router has handled a well-formed multiplier command, the
\* smoother's multiplier is the command's array, in every interleaving.
C8_MultiplierInstalled ==
    (cmd # None /\ SetsMultiplier(cmd[1])) =>
        (smooth_data # None /\ smooth_data[1].multiplier = cmd[1][3].val)

\* C9: the command ("client1", "multiplier", "[1.5]") being the last one
\* handled, the next message with au_r = {"AU01": 2.0} on an empty history
\* is sent with au_r AU01 = 3.0.
C9_UpdateSeenByNextCall ==
    [][(/\ cmd = Some(<<"client1", "multiplier", JsonBytes(FALSE, << <<3, 2>> >>)>>)
        /\ tpc = "recv"
        /\ smooth_data[1].dataframe_list[1] = <<>>
        /\ nrecv' = nrecv + 1
        /\ IsData(msg'[1]) /\ ~BelowThreshold(msg'[1]) /\ ~Reserved(msg'[1])
        /\ "au_r" \in DOMAIN msg'[1][3].val
        /\ msg'[1][3].val["au_r"] = << <<"AU01", <<2, 1>> >> >>)
       => (pending' # None /\ pending'[1][3].val["au_r"] = << <<"AU01", <<3, 1>> >> >>)]_vars

\* the vectors a command can carry, and the initial one
WholeVectors == {NewSmoothData.multiplier} \cup {c[3].val : c \in {x \in Commands : SetsMultiplier(x)}}

\* C10: once the smoother exists its multiplier changes only in a step of
\* the router that handles a multiplier command, and then to the whole
\* vector of that command; a step of pub_sub_function never changes it, and
\* the multiplier is at all times one whole vector.
C10_OnlyRouterSetsMultiplier ==
    [][/\ smooth_data' # None => smooth_data'[1].multiplier \in WholeVectors
       /\ (smooth_data # None /\ smooth_data'[1].multiplier # smooth_data[1].multiplier) =>
             /\ cmd' # None /\ SetsMultiplier(cmd'[1])
             /\ smooth_data'[1].multiplier = cmd'[1][3].val
             /\ UNCHANGED <<tpc, msg, pending, out, calls, nrecv, nsent>>
             /\ smooth_data'[1].dataframe_list = smooth_data[1].dataframe_list]_vars

C10_Witness ==
    /\ InHand /\ tpc = "recv" /\ calls # <<>> /\ ~calls[1].raised
    /\ smooth_data[1].multiplier = << <<2, 1>>, <<1, 1>> >>
    /\ calls[1].result = << <<"AU01", <<4, 1>> >>, <<"AU02", <<1, 1>> >> >>

\* a step in which pub_sub_function receives a message (msg' is that message)
Receives == phase = "function" /\ tpc = "recv" /\ nrecv' = nrecv + 1

\* a step in which the router has handled a command other than the last one
Handles == cmd' # cmd

\* C11: a 3-part command whose topic does not start with "multiplier"
\* changes neither the multiplier nor any history, raises nothing, sends
\* nothing, and leaves the router at its receive.
C11_OtherTopicIgnored ==
    [][(Handles /\ Len(cmd'[1]) = 3 /\ ~StartsWith(cmd'[1][2], "multiplier")) =>
          /\ smooth_data' = smooth_data
          /\ ~rerr'
          /\ rpc' = "recv"
          /\ UNCHANGED <<tpc, msg, pending, out, calls, nrecv, nsent>>]_vars

C11_Witness ==
    /\ cmd = Some(<<"client1", "reset", JsonBytes(FALSE, << <<3, 2>> >>)>>)
    /\ ~rerr /\ rpc = "recv"
    /\ smooth_data # None
    /\ smooth_data[1].multiplier = << <<2, 1>>, <<1, 1>> >>
    /\ smooth_data[1].dataframe_list[1] # <<>>

\* a command the router cannot parse
BadCommand(c) == Len(c) # 3 \/ (StartsWith(c[2], "multiplier") /\ c[3].kind # "json")

\* C12: a command the router cannot parse leaves the multiplier as it was
\* and the router at its receive, and the next well-formed multiplier
\* command is handled and installed.
C12_RouterErrorSkipsOneCommand ==
    [][/\ (Handles /\ BadCommand(cmd'[1])) =>
             (smooth_data' = smooth_data /\ rerr' /\ rpc' = "recv")
       /\ (cmd # None /\ BadCommand(cmd[1]) /\ Handles /\ SetsMultiplier(cmd'[1])) =>
             /\ rpc' = "recv" /\ ~rerr'
             /\ smooth_data' # None
             /\ smooth_data'[1].multiplier = cmd'[1][3].val]_vars

\* C13: an error in one loop does not end the other: after pub_sub_function
\* has raised the router can still start and receive, after the router has
\* raised pub_sub_function can still start, receive and send; a router
\* step leaves pub_sub_function where it was, and the other way round.
C13_SiblingSurvives ==
    /\ [](phase = "function" =>
            /\ (tpc = "done" /\ rpc = "new") => ENABLED RouterStart
            /\ (tpc = "done" /\ rpc = "recv") => ENABLED (\E c \in Commands : RouterRecv(c))
            /\ rpc \in {"new", "recv"}
            /\ (rerr /\ tpc = "new") => ENABLED PubSubStart
            /\ (rerr /\ tpc = "recv" /\ nrecv < MaxMsgs) => ENABLED (\E m \in Messages : PubSubRecv(m))
            /\ (rerr /\ tpc = "send") => ENABLED PubSubSend)
    /\ [][/\ (Handles \/ rerr' # rerr) => UNCHANGED <<tpc, msg, pending, out, calls, nrecv, nsent>>
          /\ (tpc # "done" /\ tpc' = "done") => UNCHANGED <<rpc, cmd, rerr>>]_vars

C13_Witness ==
    /\ phase = "function" /\ tpc = "done" /\ rerr /\ nrecv = 1
    /\ cmd = Some(<<"client1", "multiplier", BadBytes>>)

\* C14: as long as inbound messages are waiting pub_sub_function is on
\* its way to receive them, and the router is on its way to its receive:
\* neither has returned.
C14_BothLoopsServe ==
    phase = "function" =>
        /\ rpc \in {"new", "recv"}
        /\ nrecv < MaxMsgs => tpc \in {"new", "recv", "send"}

\* C15: with pub_socket or sub_socket missing, start() exits: no proxy, no
\* coroutine, nothing received, nothing sent.
C15_ExitWithoutSockets ==
    (~pub_socket \/ ~sub_socket) =>
        /\ phase \in {"new", "exited"}
        /\ tpc = "idle" /\ rpc = "idle"
        /\ nrecv = 0 /\ nsent = 0
        /\ msg = None /\ cmd = None /\ out = <<>> /\ pending = None /\ smooth_data = None

C15_Witness == phase = "exited" /\ pub_socket /\ ~sub_socket /\ async_func_list

\* C16: pub_sub_function receives only when nothing is left to send, and
\* what it sends is the message made from the last inbound message: the
\* outbound message for one inbound message is sent before the next inbound
\* message is received, so the outbound order is the inbound order.
C16_OneAtATimeInOrder ==
    [][phase = "function" =>
          /\ nrecv' # nrecv => (tpc = "recv" /\ pending = None /\ nrecv' = nrecv + 1)
          /\ nsent' # nsent =>
                /\ nsent' = nsent + 1 /\ nrecv' = nrecv /\ msg' = msg
                /\ pending # None /\ pending' = None
                /\ out' = Append(out, pending[1])
                /\ pending[1][1] = msg[1][1]]_vars

C16_Witness ==
    /\ phase = "function" /\ tpc = "recv" /\ nrecv = 2 /\ nsent = 2
    /\ Len(out) = 1 /\ out[1][1] = msg[1][1]

\* the orders in which the items of a dict can have been inserted
Orders(d) == {p \in [1..Len(d) -> {d[i] : i \in 1..Len(d)}] : \A i \in 1..Len(d) : \E j \in 1..Len(d) : p[j] = d[i]}

\* C17: from the same smoother state, a message that is smoothed and the same
\* message with its au_r items in any other order lead to the same smoother
\* calls (the sample sorted by key), the same outbound message and the same
\* smoother state.
C17_InsertionOrderIrrelevant ==
    [][(/\ Receives /\ IsData(msg'[1])
        /\ ~BelowThreshold(msg'[1]) /\ ~Reserved(msg'[1])
        /\ "au_r" \in DOMAIN msg'[1][3].val) =>
          \A p \in Orders(msg'[1][3].val["au_r"]) :
              LET m2 == [msg'[1] EXCEPT ![3].val["au_r"] = p]
                  it == Iteration(m2, smooth_data[1])
              IN /\ it.calls = calls'
                 /\ it.send = pending'
                 /\ it.self = smooth_data'[1]
                 /\ it.raised = (tpc' = "done")]_vars

C17_Witness ==
    /\ InHand /\ tpc = "recv" /\ IsData(msg[1]) /\ ~Reserved(msg[1])
    /\ "au_r" \in DOMAIN msg[1][3].val
    /\ msg[1][3].val["au_r"] = << <<"AU02", <<1, 1>> >>, <<"AU01", <<2, 1>> >> >>
    /\ calls # <<>> /\ calls[1].data = << <<"AU01", <<2, 1>> >>, <<"AU02", <<1, 1>> >> >>
    /\ Len(out) = 1
    /\ out[1][3].val["au_r"] = << <<"AU01", <<4, 1>> >>, <<"AU02", <<1, 1>> >> >>

\* the calls made for stream n in the step, those that returned
CallsOf(cs, n) == {i \in 1..Len(cs) : cs[i].queue_no = n}
Returned(cs, n) == {i \in CallsOf(cs, n) : ~cs[i].raised}

\* C18: au_r is smoothed only when present, against stream 0 with window 4
\* and steep 0.35; pose only when present, against stream 1 with window 4
\* and steep 0.2; a message with one of the two has it smoothed and is
\* sent; a stream's history changes only by a call for that stream.
C18_IndependentStreams ==
    [][Receives =>
          LET h == smooth_data[1].dataframe_list
              h2 == smooth_data'[1].dataframe_list
              m == msg'[1]
          IN /\ \A i \in 1..Len(calls') :
                   \/ /\ calls'[i].queue_no = 0
                      /\ calls'[i].window_size = 4 /\ calls'[i].steep = <<7, 20>>
                      /\ "au_r" \in DOMAIN m[3].val
                      /\ calls'[i].data = SortedItems(m[3].val["au_r"])
                   \/ /\ calls'[i].queue_no = 1
                      /\ calls'[i].window_size = 4 /\ calls'[i].steep = <<1, 5>>
                      /\ "pose" \in DOMAIN m[3].val
                      /\ calls'[i].data = m[3].val["pose"]
             /\ Cardinality(CallsOf(calls', 0)) <= 1 /\ Cardinality(CallsOf(calls', 1)) <= 1
             /\ h2[1] # h[1] => Returned(calls', 0) # {}
             /\ h2[2] # h[2] => Returned(calls', 1) # {}
             /\ (IsData(m) /\ ~BelowThreshold(m) /\ ~Reserved(m)) =>
                   /\ "au_r" \in DOMAIN m[3].val => CallsOf(calls', 0) # {}
                   /\ ("pose" \in DOMAIN m[3].val /\ CallsOf(calls', 0) = Returned(calls', 0))
                         => CallsOf(calls', 1) # {}
                   /\ (CallsOf(calls', 0) = Returned(calls', 0) /\ CallsOf(calls', 1) = Returned(calls', 1))
                         => pending' # None]_vars

C18_Witness ==
    /\ InHand /\ tpc = "recv" /\ IsData(msg[1]) /\ ~Reserved(msg[1])
    /\ "pose" \in DOMAIN msg[1][3].val /\ "au_r" \notin DOMAIN msg[1][3].val
    /\ Len(calls) = 1 /\ calls[1].queue_no = 1 /\ Len(out) = 1
    /\ Len(smooth_data[1].dataframe_list[1]) = 1
    /\ Len(smooth_data[1].dataframe_list[2]) = 1

\* C19: whatever the topic, a smoothing call for stream n pushes the scaled
\* sample onto the one history of stream n and averages over it, so the
\* result depends on the samples of every other topic that is smoothed.
C19_HistoryByStreamOnly ==
    [][Receives =>
          \A i \in 1..Len(calls') :
              ~calls'[i].raised =>
                  LET n == calls'[i].queue_no
                      h == Pushed(smooth_data[1].dataframe_list[n + 1],
                                  Scaled(smooth_data[1].multiplier, calls'[i].data),
                                  calls'[i].window_size)
                  IN /\ smooth_data'[1].dataframe_list[n + 1] = h
                     /\ \A j \in 1..Len(calls'[i].data) :
                           calls'[i].result[j] =
                               <<calls'[i].data[j][1],
                                 Average(h, calls'[i].data[j][1], calls'[i].steep)>>]_vars

C19_Witness ==
    /\ InHand /\ tpc = "recv" /\ msg[1][1] = "openface" /\ Len(out) = 1
    /\ smooth_data[1].multiplier = << <<1, 1>> >>
    /\ smooth_data[1].dataframe_list[1] =
           << << <<"AU01", <<4, 1>> >> >>, << <<"AU01", <<2, 1>> >> >> >>
    /\ out[1][3].val["au_r"] = << <<"AU01", <<92, 33>> >> >>

\* a message that is not smoothed: the end of a stream, a low confidence,
\* or the DNN's topic
Unsmoothed(m) ==
    Len(m) >= 2 /\ (m[2] = "" \/ (IsData(m) /\ (BelowThreshold(m) \/ Reserved(m))))

\* C20: receiving a message that is not smoothed changes no history and
\* not the multiplier; in particular the end of a stream leaves the
\* histories as they are.
C20_UnsmoothedLeavesState ==
    [][(Receives /\ Unsmoothed(msg'[1])) => (smooth_data' = smooth_data /\ calls' = <<>>)]_vars

C20_Witness ==
    /\ InHand /\ tpc = "recv" /\ Len(msg[1]) >= 2 /\ msg[1][2] = "" /\ Len(out) = 1
    /\ smooth_data[1].dataframe_list[1] # <<>>
    /\ smooth_data[1].dataframe_list[2] # <<>>
    /\ smooth_data[1].multiplier = << <<3, 2>> >>


====
